---- MODULE Spec2Model ----
(***************************************************************************)
(* Model of goflipmiibo (src/main.go): the transcoding of raw NTAG215      *)
(* dumps into Flipper NFC text files, and main's loop over the .bin files. *)
(*                                                                         *)
(* Text is modelled as a sequence of one-character strings, bytes as the   *)
(* integers 0..255, and a Go []byte as a record [arr, len]: arr is the     *)
(* backing array seen from the slice's first element (so Len(arr) is the   *)
(* capacity) and len the slice's length.  Go indices are 0-based, TLA+     *)
(* sequences 1-based: Go's s[i] is s.arr[i + 1].                           *)
(***************************************************************************)
EXTENDS Integers, Sequences, FiniteSets, TLC

VARIABLES
    files,        \* main: filesToConvert, the discovered .bin files
    idx,          \* main: position of the range loop in filesToConvert (1-based)
    pc,           \* main: where the run is: load, transcode, save, done, panicked
    fileContent,  \* main: the slice loadBinFile returned for the current file
    nfcContent,   \* main: the document built for the current file
    status,       \* main: per file, what has happened to it so far
    logged,       \* main: number of "Error when save NfcFile" lines logged
    arg,          \* function harness: the argument of the call
    called,       \* function harness: which function was called ("none" before)
    ret           \* function harness: what the call returned, or that it panicked

vars == <<files, idx, pc, fileContent, nfcContent, status, logged, arg, called, ret>>

mainVars == <<files, idx, pc, fileContent, nfcContent, status, logged>>

fnVars == <<arg, called, ret>>

----------------------------------------------------------------------------
(* Bounds of the model *)

\* dump contents are drawn from the patterns 0..MaxSeed (0 is the all-zero dump)
MaxSeed == 2

\* main is run on at most MaxFiles discovered files
MaxFiles == 3

\* each byte of a UID handed to calculatePassword is one of MaxSample + 1 samples
MaxSample == 3

----------------------------------------------------------------------------
(* Program constant *)

Ntag215PageQuantity == 135

----------------------------------------------------------------------------
(* Library primitives the code calls *)

\* Go's ^ on two bytes
RECURSIVE Xor(_, _)
Xor(a, b) ==
    IF a = 0 THEN b
    ELSE IF b = 0 THEN a
    ELSE (((a % 2) + (b % 2)) % 2) + (2 * Xor(a \div 2, b \div 2))

\* encoding/hex's digit table: hex.EncodeToString writes lowercase digits
hextable == <<"0", "1", "2", "3", "4", "5", "6", "7", "8", "9", "a", "b", "c", "d", "e", "f">>

\* hex.EncodeToString([]byte{b}): two digits, high nibble first
EncodeToString(b) == <<hextable[(b \div 16) + 1], hextable[(b % 16) + 1]>>

\* strings.ToUpper on one character (only a..f occur in what the code upper-cases)
ToUpperChar(c) ==
    CASE c = "a" -> "A" [] c = "b" -> "B" [] c = "c" -> "C"
      [] c = "d" -> "D" [] c = "e" -> "E" [] c = "f" -> "F"
      [] OTHER -> c

\* strings.ToUpper
ToUpper(s) == [k \in 1..Len(s) |-> ToUpperChar(s[k])]

\* encoding/hex's fromHexChar: the value of a digit of either case, -1 if none
fromHexChar(c) ==
    CASE c = "0" -> 0 [] c = "1" -> 1 [] c = "2" -> 2 [] c = "3" -> 3
      [] c = "4" -> 4 [] c = "5" -> 5 [] c = "6" -> 6 [] c = "7" -> 7
      [] c = "8" -> 8 [] c = "9" -> 9
      [] c \in {"a", "A"} -> 10 [] c \in {"b", "B"} -> 11 [] c \in {"c", "C"} -> 12
      [] c \in {"d", "D"} -> 13 [] c \in {"e", "E"} -> 14 [] c \in {"f", "F"} -> 15
      [] OTHER -> -1

\* hex.DecodeString with its error dropped (uid, _ := ...): the bytes decoded
\* before the first character that is no hex digit, or before a dangling one
RECURSIVE DecodeString(_)
DecodeString(s) ==
    IF Len(s) < 2 THEN <<>>
    ELSE IF fromHexChar(s[1]) < 0 \/ fromHexChar(s[2]) < 0 THEN <<>>
    ELSE <<(16 * fromHexChar(s[1])) + fromHexChar(s[2])>> \o DecodeString(SubSeq(s, 3, Len(s)))

\* strings.ReplaceAll(s, " ", "")
RemoveSpaces(s) == SelectSeq(s, LAMBDA c : c /= " ")

\* strconv.FormatInt(int64(n), 10) for n >= 0
RECURSIVE FormatInt(_)
FormatInt(n) ==
    IF n < 10 THEN <<hextable[n + 1]>>
    ELSE FormatInt(n \div 10) \o <<hextable[(n % 10) + 1]>>

\* strings.Join(elems, sep): the elements in order with sep between neighbours
\* (built by halves, which keeps the evaluation shallow)
RECURSIVE Join(_, _)
Join(elems, sep) ==
    IF Len(elems) = 0 THEN <<>>
    ELSE IF Len(elems) = 1 THEN elems[1]
    ELSE LET h == Len(elems) \div 2
         IN  Join(SubSeq(elems, 1, h), sep) \o sep \o Join(SubSeq(elems, h + 1, Len(elems)), sep)

----------------------------------------------------------------------------
(* Go slices *)

cap(s) == Len(s.arr)

\* the bytes of the slice, s[0:len(s)]
Bytes(s) == SubSeq(s.arr, 1, s.len)

\* whether the slice expression s[lo:hi] is in range: 0 <= lo <= hi <= cap(s).
\* Out of range it panics ("slice bounds out of range").
SliceInRange(s, lo, hi) == 0 <= lo /\ lo <= hi /\ hi <= cap(s)

\* the bytes of s[lo:hi]; beyond len(s) these are bytes of the backing array
SliceBytes(s, lo, hi) == SubSeq(s.arr, lo + 1, hi)

\* a slice with no spare capacity, as a composite literal or make([]byte, n) gives
FreshSlice(bytes) == [arr |-> bytes, len |-> Len(bytes)]

Zeros(n) == [k \in 1..n |-> 0]

Max(a, b) == IF a >= b THEN a ELSE b

\* append(s, b): in place when the capacity allows it; otherwise the elements
\* are copied to a new, zeroed array.  The new capacity is the runtime's choice:
\* at least the new length and, the smallest allocation class holding 8 bytes,
\* at least 8.  A larger choice changes nothing here: the spare bytes are zero
\* and the code reads beyond the length only in extractUid's [:3] and [4:8].
append(s, b) ==
    IF s.len < cap(s)
    THEN [arr |-> [s.arr EXCEPT ![s.len + 1] = b], len |-> s.len + 1]
    ELSE LET newcap == Max(8, s.len + 1)
         IN  [arr |-> Bytes(s) \o <<b>> \o Zeros(newcap - s.len - 1), len |-> s.len + 1]

----------------------------------------------------------------------------
(* The functions of main.go.  A call either returns a value or panics, so   *)
(* each result is a record [panic, val].                                    *)

Return(v) == [panic |-> FALSE, val |-> v]

Panic == [panic |-> TRUE, val |-> <<>>]

\* loadBinFile returning a slice with no spare capacity, as a read into a
\* buffer of exactly the file's size would
loadBinFile_NoSpareCapacity(bytes) == FreshSlice(bytes)

\* loadBinFile reading into a buffer that is not zeroed behind the file's bytes
loadBinFile_DirtySpare(bytes) ==
    LET size == Max(512, Len(bytes) + 1)
    IN  [arr |-> bytes \o [k \in 1..(size - Len(bytes)) |-> 255], len |-> Len(bytes)]

\* what os.ReadFile holds for a file of the given bytes: it reads into
\* make([]byte, 0, size) with size the file's size plus one and never less
\* than 512, so the slice has zeroed spare capacity behind the file's bytes
loadBinFile(bytes) ==
    LET size == Max(512, Len(bytes) + 1)
    IN  [arr |-> bytes \o Zeros(size - Len(bytes)), len |-> Len(bytes)]

\* extractUid keeping the check byte: fileContent[:4] with fileContent[5:8]
extractUid_KeepsByte3(fc) ==
    IF ~SliceInRange(fc, 0, 4) \/ ~SliceInRange(fc, 5, 8)
    THEN Panic
    ELSE LET uidBytes == SliceBytes(fc, 0, 4) \o SliceBytes(fc, 5, 8)
             strUid == [k \in 1..Len(uidBytes) |-> ToUpper(EncodeToString(uidBytes[k]))]
         IN  Return(Join(strUid, <<" ">>))

\* slices.Concat(fileContent[:3], fileContent[4:8]), each byte as two
\* uppercase hex digits, joined by single spaces
extractUid(fc) ==
    IF ~SliceInRange(fc, 0, 3) \/ ~SliceInRange(fc, 4, 8)
    THEN Panic
    ELSE LET uidBytes == SliceBytes(fc, 0, 3) \o SliceBytes(fc, 4, 8)
             strUid == [k \in 1..Len(uidBytes) |-> ToUpper(EncodeToString(uidBytes[k]))]
         IN  Return(Join(strUid, <<" ">>))

\* calculatePassword with every index one too low: rawUid[0] ^ rawUid[2], ...
calculatePassword_UsesUid0(rawUid) ==
    IF Len(rawUid) < 7
    THEN Panic
    ELSE LET password ==
                 << EncodeToString(Xor(Xor(rawUid[1], rawUid[3]), 170)),
                    EncodeToString(Xor(Xor(rawUid[2], rawUid[4]), 85)),
                    EncodeToString(Xor(Xor(rawUid[3], rawUid[5]), 170)),
                    EncodeToString(Xor(Xor(rawUid[4], rawUid[6]), 85)) >>
         IN  Return(Join(password, <<" ">>))

\* rawUid is a Go string holding the UID's bytes; rawUid[6] is out of range
\* (a panic) when it holds fewer than 7
calculatePassword(rawUid) ==
    IF Len(rawUid) < 7
    THEN Panic
    ELSE LET password ==
                 << EncodeToString(Xor(Xor(rawUid[2], rawUid[4]), 170)),
                    EncodeToString(Xor(Xor(rawUid[3], rawUid[5]), 85)),
                    EncodeToString(Xor(Xor(rawUid[4], rawUid[6]), 170)),
                    EncodeToString(Xor(Xor(rawUid[5], rawUid[7]), 85)) >>
         IN  Return(Join(password, <<" ">>))

\* the padding done with the character '0' (0x30) instead of the byte 0x00
RECURSIVE PadToPageSize_Ascii0(_)
PadToPageSize_Ascii0(fc) ==
    IF fc.len % 4 /= 0 THEN PadToPageSize_Ascii0(append(fc, 48)) ELSE fc

\* lines 74-79: zero bytes are appended until the length is a multiple of 4
RECURSIVE PadToPageSize(_)
PadToPageSize(fc) ==
    IF fc.len % 4 /= 0 THEN PadToPageSize(append(fc, 0)) ELSE fc

PageLabel(pageCount) == <<"P", "a", "g", "e", " ">> \o FormatInt(pageCount) \o <<":">>

\* the page line without strings.ToUpper: lowercase hex digits
RenderPage_Lowercase(fc, i, pageCount) ==
    <<"P", "a", "g", "e", " ">> \o FormatInt(pageCount) \o <<":">>
        \o <<" ">> \o EncodeToString(fc.arr[i + 1])
        \o <<" ">> \o EncodeToString(fc.arr[i + 2])
        \o <<" ">> \o EncodeToString(fc.arr[i + 3])
        \o <<" ">> \o EncodeToString(fc.arr[i + 4])

\* lines 82-87: the line of the page that starts at byte i
RenderPage(fc, i, pageCount) ==
    PageLabel(pageCount)
        \o <<" ">> \o ToUpper(EncodeToString(fc.arr[i + 1]))
        \o <<" ">> \o ToUpper(EncodeToString(fc.arr[i + 2]))
        \o <<" ">> \o ToUpper(EncodeToString(fc.arr[i + 3]))
        \o <<" ">> \o ToUpper(EncodeToString(fc.arr[i + 4]))

\* lines 81-93: one line per group of 4 bytes, for i = 0, 4, ... while
\* i < len(fileContent), stopping once Ntag215PageQuantity pages are rendered.
\* fileContent[i+j : i+j+1] is a slice expression, in range up to the capacity.
RenderPages(fc) ==
    LET groups == (fc.len + 3) \div 4
        n == IF groups < Ntag215PageQuantity THEN groups ELSE Ntag215PageQuantity
    IN  IF n > 0 /\ ~SliceInRange(fc, 4 * n - 1, 4 * n)
        THEN Panic
        ELSE Return([k \in 1..n |-> RenderPage(fc, 4 * (k - 1), k - 1)])

\* lines 94-101: all-zero pages are appended until there are Ntag215PageQuantity
PadPages(pagesContent) ==
    pagesContent \o
        [k \in 1..(Ntag215PageQuantity - Len(pagesContent)) |->
            PageLabel(Len(pagesContent) + k - 1)
                \o <<" ", "0", "0", " ", "0", "0", " ", "0", "0", " ", "0", "0">>]

Page133Prefix == <<"P", "a", "g", "e", " ", "1", "3", "3", ":", " ">>

Page134Line ==
    <<"P", "a", "g", "e", " ", "1", "3", "4", ":", " ",
      "8", "0", " ", "8", "0", " ", "0", "0", " ", "0", "0">>

\* the trailer without line 104: page 133 stays as rendered from the dump
SetTrailerPages_KeepsPage133(pagesContent, fc) ==
    LET strUid == extractUid(fc)
    IN  IF strUid.panic THEN Panic
        ELSE Return([pagesContent EXCEPT ![135] = Page134Line])

\* lines 103-105: the UID is taken from the padded content, the password page
\* and the configuration page replace pagesContent[133] and pagesContent[134]
SetTrailerPages(pagesContent, fc) ==
    LET strUid == extractUid(fc)
    IN  IF strUid.panic THEN Panic
        ELSE LET uid == DecodeString(RemoveSpaces(strUid.val))
                 password == calculatePassword(uid)
             IN  IF password.panic THEN Panic
                 ELSE Return([pagesContent EXCEPT
                                 ![134] = Page133Prefix \o ToUpper(password.val),
                                 ![135] = Page134Line])

convertBinDataToNfcPages(content) ==
    LET fc == PadToPageSize(content)
        rendered == RenderPages(fc)
    IN  IF rendered.panic THEN Panic
        ELSE LET pagesContent == SetTrailerPages(PadPages(rendered.val), fc)
             IN  IF pagesContent.panic THEN Panic
                 ELSE Return(Join(pagesContent.val, <<"\n">>))

\* the template of createNfcFileContent up to the UID's %s
NfcTemplateHead == <<
    "F", "i", "l", "e", "t", "y", "p", "e", ":", " ", "F", "l", "i", "p", "p", "e", "r",
    " ", "N", "F", "C", " ", "d", "e", "v", "i", "c", "e", "\n", "V", "e", "r", "s", "i",
    "o", "n", ":", " ", "2", "\n", "#", " ", "N", "f", "c", " ", "d", "e", "v", "i", "c",
    "e", " ", "t", "y", "p", "e", " ", "c", "a", "n", " ", "b", "e", " ", "U", "I", "D",
    ",", " ", "M", "i", "f", "a", "r", "e", " ", "U", "l", "t", "r", "a", "l", "i", "g",
    "h", "t", ",", " ", "B", "a", "n", "k", " ", "c", "a", "r", "d", "\n", "D", "e", "v",
    "i", "c", "e", " ", "t", "y", "p", "e", ":", " ", "N", "T", "A", "G", "2", "1", "5",
    "\n", "#", " ", "U", "I", "D", ",", " ", "A", "T", "Q", "A", " ", "a", "n", "d", " ",
    "S", "A", "K", " ", "a", "r", "e", " ", "c", "o", "m", "m", "o", "n", " ", "f", "o",
    "r", " ", "a", "l", "l", " ", "f", "o", "r", "m", "a", "t", "s", "\n", "U", "I", "D",
    ":", " " >>

\* the template between the UID's %s and the page total's %d
NfcTemplateMid == <<
    "\n", "A", "T", "Q", "A", ":", " ", "4", "4", " ", "0", "0", "\n", "S", "A", "K", ":",
    " ", "0", "0", "\n", "#", " ", "M", "i", "f", "a", "r", "e", " ", "U", "l", "t", "r",
    "a", "l", "i", "g", "h", "t", " ", "s", "p", "e", "c", "i", "f", "i", "c", " ", "d",
    "a", "t", "a", "\n", "S", "i", "g", "n", "a", "t", "u", "r", "e", ":", " ", "0", "0",
    " ", "0", "0", " ", "0", "0", " ", "0", "0", " ", "0", "0", " ", "0", "0", " ", "0",
    "0", " ", "0", "0", " ", "0", "0", " ", "0", "0", " ", "0", "0", " ", "0", "0", " ",
    "0", "0", " ", "0", "0", " ", "0", "0", " ", "0", "0", " ", "0", "0", " ", "0", "0",
    " ", "0", "0", " ", "0", "0", " ", "0", "0", " ", "0", "0", " ", "0", "0", " ", "0",
    "0", " ", "0", "0", " ", "0", "0", " ", "0", "0", " ", "0", "0", " ", "0", "0", " ",
    "0", "0", " ", "0", "0", " ", "0", "0", "\n", "M", "i", "f", "a", "r", "e", " ", "v",
    "e", "r", "s", "i", "o", "n", ":", " ", "0", "0", " ", "0", "4", " ", "0", "4", " ",
    "0", "2", " ", "0", "1", " ", "0", "0", " ", "1", "1", " ", "0", "3", "\n", "C", "o",
    "u", "n", "t", "e", "r", " ", "0", ":", " ", "0", "\n", "T", "e", "a", "r", "i", "n",
    "g", " ", "0", ":", " ", "0", "0", "\n", "C", "o", "u", "n", "t", "e", "r", " ", "1",
    ":", " ", "0", "\n", "T", "e", "a", "r", "i", "n", "g", " ", "1", ":", " ", "0", "0",
    "\n", "C", "o", "u", "n", "t", "e", "r", " ", "2", ":", " ", "0", "\n", "T", "e", "a",
    "r", "i", "n", "g", " ", "2", ":", " ", "0", "0", "\n", "P", "a", "g", "e", "s", " ",
    "t", "o", "t", "a", "l", ":", " " >>

\* fmt.Sprintf of the template with uid, Ntag215PageQuantity and pages
createNfcFileContent(uid, pages) ==
    NfcTemplateHead \o uid \o NfcTemplateMid
        \o FormatInt(Ntag215PageQuantity) \o <<"\n">> \o pages

----------------------------------------------------------------------------
(* Inputs *)

\* byte i (0-based) of the dump pattern `seed`; pattern 0 is all zero
Pat(seed, i) == (seed * (13 * i + 7)) % 256

Dump(n, seed) == [k \in 1..n |-> Pat(seed, k - 1)]

\* dump lengths: empty, shorter than a UID, not page aligned, the known
\* variants 532, 540 and 572, and their neighbours
DumpLens == {0, 1, 3, 4, 5, 7, 8, 9, 12, 531, 532, 536, 539, 540, 541, 544, 572}

\* the slices a function is called on: with no spare capacity, and as
\* os.ReadFile builds them
ArgSlices ==
    {FreshSlice(Dump(n, s)) : n \in DumpLens, s \in 0..MaxSeed}
        \cup {loadBinFile(Dump(n, s)) : n \in DumpLens, s \in 0..MaxSeed}

Sample(k) == (85 * k) % 256

\* the raw UIDs calculatePassword is called on
ArgUids == [1..7 -> {Sample(k) : k \in 0..MaxSample}]

\* the files main may discover, each named by the bytes it holds
FileKinds ==
    { [len |-> 0, seed |-> 0], [len |-> 5, seed |-> 1],
      [len |-> 540, seed |-> 2], [len |-> 572, seed |-> 1] }

FileLists == UNION {[1..n -> FileKinds] : n \in 0..MaxFiles}

NoSlice == [arr |-> <<>>, len |-> 0]

----------------------------------------------------------------------------
(* main: the loop over filesToConvert, lines 158-175 *)

MainIdle ==
    /\ files = <<>>
    /\ idx = 1
    /\ pc = "done"
    /\ fileContent = NoSlice
    /\ nfcContent = <<>>
    /\ status = <<>>
    /\ logged = 0

FnIdle ==
    /\ arg = NoSlice
    /\ called = "none"
    /\ ret = Return(<<>>)

Init ==
    /\ files \in FileLists
    /\ idx = 1
    /\ pc = IF Len(files) = 0 THEN "done" ELSE "load"
    /\ fileContent = NoSlice
    /\ nfcContent = <<>>
    /\ status = [k \in 1..Len(files) |-> "pending"]
    /\ logged = 0
    /\ FnIdle

\* the range loop moves to the next file, or ends after the last one
NextFile ==
    /\ idx' = idx + 1
    /\ pc' = IF idx = Len(files) THEN "done" ELSE "load"

\* lines 160-163: loadBinFile returned the file's content
LoadOk ==
    /\ pc = "load"
    /\ fileContent' = loadBinFile(Dump(files[idx].len, files[idx].seed))
    /\ nfcContent' = <<>>
    /\ pc' = "transcode"
    /\ UNCHANGED <<files, idx, status, logged>>

\* lines 160-163: loadBinFile returned an error and log.Panicln ends the run
LoadFail ==
    /\ pc = "load"
    /\ status' = [status EXCEPT ![idx] = "readFailed"]
    /\ pc' = "panicked"
    /\ UNCHANGED <<files, idx, fileContent, nfcContent, logged>>

\* line 165: extractUid, then convertBinDataToNfcPages, then
\* createNfcFileContent; a panic in either ends the run
Transcode ==
    /\ pc = "transcode"
    /\ LET uid == extractUid(fileContent)
           pages == IF uid.panic THEN Panic ELSE convertBinDataToNfcPages(fileContent)
       IN  IF pages.panic
           THEN /\ pc' = "panicked"
                /\ status' = [status EXCEPT ![idx] = "crashed"]
                /\ UNCHANGED nfcContent
           ELSE /\ pc' = "save"
                /\ status' = [status EXCEPT ![idx] = "transcoded"]
                /\ nfcContent' = createNfcFileContent(uid.val, pages.val)
    /\ UNCHANGED <<files, idx, fileContent, logged>>

\* lines 167-174: saveNfcFile wrote the document
SaveOk ==
    /\ pc = "save"
    /\ status' = [status EXCEPT ![idx] = "written"]
    /\ NextFile
    /\ UNCHANGED <<files, fileContent, nfcContent, logged>>

\* the write failure handled like the read failure: log.Panicln ends the run
SaveFail_Fatal ==
    /\ pc = "save"
    /\ status' = [status EXCEPT ![idx] = "writeFailed"]
    /\ logged' = logged + 1
    /\ pc' = "panicked"
    /\ UNCHANGED <<files, idx, fileContent, nfcContent>>

\* lines 172-174: saveNfcFile returned an error, which is logged
SaveFail ==
    /\ pc = "save"
    /\ status' = [status EXCEPT ![idx] = "writeFailed"]
    /\ logged' = logged + 1
    /\ NextFile
    /\ UNCHANGED <<files, fileContent, nfcContent>>

Next ==
    \/ (LoadOk /\ UNCHANGED fnVars)
    \/ (LoadFail /\ UNCHANGED fnVars)
    \/ (Transcode /\ UNCHANGED fnVars)
    \/ (SaveOk /\ UNCHANGED fnVars)
    \/ (SaveFail /\ UNCHANGED fnVars)

Spec == Init /\ [][Next]_vars

----------------------------------------------------------------------------
(* The functions called on their own *)

InitConv ==
    /\ MainIdle
    /\ arg \in ArgSlices
    /\ called = "none"
    /\ ret = Return(<<>>)

CallConvert ==
    /\ called = "none"
    /\ called' = "convertBinDataToNfcPages"
    /\ ret' = convertBinDataToNfcPages(arg)
    /\ UNCHANGED arg

CallExtractUid ==
    /\ called = "none"
    /\ called' = "extractUid"
    /\ ret' = extractUid(arg)
    /\ UNCHANGED arg

NextConv ==
    \/ (CallConvert /\ UNCHANGED mainVars)
    \/ (CallExtractUid /\ UNCHANGED mainVars)

SpecConv == InitConv /\ [][NextConv]_vars

InitPwd ==
    /\ MainIdle
    /\ arg \in ArgUids
    /\ called = "none"
    /\ ret = Return(<<>>)

CallCalculatePassword ==
    /\ called = "none"
    /\ called' = "calculatePassword"
    /\ ret' = calculatePassword(arg)
    /\ UNCHANGED arg

NextPwd == CallCalculatePassword /\ UNCHANGED mainVars

SpecPwd == InitPwd /\ [][NextPwd]_vars

----------------------------------------------------------------------------
(* Reading a rendered text back, for the properties below.  None of this    *)
(* uses the rendering operators above: a line is taken apart character by   *)
(* character and accepted only in the exact form the specification gives.   *)

\* the lines of a text: the pieces between its "\n" characters
RECURSIVE SplitLines(_)
SplitLines(text) ==
    IF Len(text) = 0 THEN << <<>> >>
    ELSE IF Len(text) = 1 THEN (IF text[1] = "\n" THEN << <<>>, <<>> >> ELSE <<text>>)
    ELSE LET h == Len(text) \div 2
             l == SplitLines(SubSeq(text, 1, h))
             r == SplitLines(SubSeq(text, h + 1, Len(text)))
         IN  SubSeq(l, 1, Len(l) - 1) \o <<l[Len(l)] \o r[1]>> \o SubSeq(r, 2, Len(r))

\* the value of an uppercase hexadecimal digit, -1 for any other character
UpperHexValue(c) ==
    CASE c = "0" -> 0 [] c = "1" -> 1 [] c = "2" -> 2 [] c = "3" -> 3
      [] c = "4" -> 4 [] c = "5" -> 5 [] c = "6" -> 6 [] c = "7" -> 7
      [] c = "8" -> 8 [] c = "9" -> 9 [] c = "A" -> 10 [] c = "B" -> 11
      [] c = "C" -> 12 [] c = "D" -> 13 [] c = "E" -> 14 [] c = "F" -> 15
      [] OTHER -> -1

\* the value of a decimal digit, -1 for any other character
DecimalValue(c) == IF UpperHexValue(c) \in 0..9 THEN UpperHexValue(c) ELSE -1

\* whether text is n bytes, each two uppercase hex digits, separated by single spaces
IsHexBytes(text, n) ==
    /\ n >= 1
    /\ Len(text) = (3 * n) - 1
    /\ \A k \in 1..n :
        /\ UpperHexValue(text[(3 * k) - 2]) >= 0
        /\ UpperHexValue(text[(3 * k) - 1]) >= 0
        /\ k < n => text[3 * k] = " "

\* the bytes such a text denotes
HexBytes(text, n) ==
    [k \in 1..n |-> (16 * UpperHexValue(text[(3 * k) - 2])) + UpperHexValue(text[(3 * k) - 1])]

\* the decimal notation of a page index 0..999, without leading zeros
IsIndexOf(digits, p) ==
    /\ Len(digits) \in 1..3
    /\ \A k \in 1..Len(digits) : DecimalValue(digits[k]) >= 0
    /\ (Len(digits) > 1 => digits[1] /= "0")
    /\ p = (IF Len(digits) = 1 THEN DecimalValue(digits[1])
            ELSE IF Len(digits) = 2
                 THEN (10 * DecimalValue(digits[1])) + DecimalValue(digits[2])
                 ELSE (100 * DecimalValue(digits[1])) + (10 * DecimalValue(digits[2]))
                          + DecimalValue(digits[3]))

\* whether line is "Page <p>: <B0> <B1> <B2> <B3>" for the page index p
IsPageLine(line, p) ==
    LET d == IF p < 10 THEN 1 ELSE IF p < 100 THEN 2 ELSE 3
    IN  /\ Len(line) = 5 + d + 2 + 11
        /\ SubSeq(line, 1, 5) = <<"P", "a", "g", "e", " ">>
        /\ IsIndexOf(SubSeq(line, 6, 5 + d), p)
        /\ line[6 + d] = ":"
        /\ line[7 + d] = " "
        /\ IsHexBytes(SubSeq(line, 8 + d, Len(line)), 4)

\* the 4 bytes of a page line
PageBytes(line) == HexBytes(SubSeq(line, Len(line) - 10, Len(line)), 4)

\* whether lines are exactly 135 page lines, indices 0..134 in ascending order
ArePageLines(lines) ==
    /\ Len(lines) = 135
    /\ \A p \in 0..134 : IsPageLine(lines[p + 1], p)

\* the 540 bytes that 135 page lines denote
LinesBytes(lines) ==
    LET pages == [p \in 1..135 |-> PageBytes(lines[p])]
    IN  [k \in 1..540 |-> pages[((k - 1) \div 4) + 1][((k - 1) % 4) + 1]]

IsPageListing(text) == ArePageLines(SplitLines(text))

ListingBytes(text) == LinesBytes(SplitLines(text))

\* the lines of a document that start with "UID: "
UidLines(lines) ==
    {k \in 1..Len(lines) :
        Len(lines[k]) >= 5 /\ SubSeq(lines[k], 1, 5) = <<"U", "I", "D", ":", " ">>}

\* whether the lines of a document hold one UID line, of 7 bytes, and end
\* with the 135 page lines
IsDocument(lines) ==
    /\ Len(lines) > 135
    /\ Cardinality(UidLines(lines)) = 1
    /\ \A k \in UidLines(lines) : IsHexBytes(SubSeq(lines[k], 6, Len(lines[k])), 7)
    /\ ArePageLines(SubSeq(lines, Len(lines) - 134, Len(lines)))

\* the 7 bytes on the UID line of a document's lines
DocumentUid(lines) ==
    LET k == CHOOSE j \in UidLines(lines) : TRUE
    IN  HexBytes(SubSeq(lines[k], 6, Len(lines[k])), 7)

\* the 540 bytes of the pages of a document's lines
DocumentBytes(lines) == LinesBytes(SubSeq(lines, Len(lines) - 134, Len(lines)))

\* byte i (0-based) of a dump followed by zero bytes
ZeroExtended(bytes, i) == IF i < Len(bytes) THEN bytes[i + 1] ELSE 0

\* bit k of a byte
Bit(x, k) == (x \div (2 ^ k)) % 2

\* whether r is the bitwise exclusive or of the bytes a, b and c
IsXor3(r, a, b, c) ==
    /\ r \in 0..255
    /\ \A k \in 0..7 : Bit(r, k) = (Bit(a, k) + Bit(b, k) + Bit(c, k)) % 2

\* whether pwd is the NTAG215 password of the 7-byte UID uid (section 4.3)
IsPasswordOf(pwd, uid) ==
    /\ Len(pwd) = 4
    /\ IsXor3(pwd[1], uid[2], uid[4], 170)
    /\ IsXor3(pwd[2], uid[3], uid[5], 85)
    /\ IsXor3(pwd[3], uid[4], uid[6], 170)
    /\ IsXor3(pwd[4], uid[5], uid[7], 85)

\* the UID of a dump: its bytes 0, 1, 2, 4, 5, 6, 7, the dump zero-extended
UidOfDump(bytes) ==
    << ZeroExtended(bytes, 0), ZeroExtended(bytes, 1), ZeroExtended(bytes, 2),
       ZeroExtended(bytes, 4), ZeroExtended(bytes, 5), ZeroExtended(bytes, 6),
       ZeroExtended(bytes, 7) >>

Returned(f) == called = f /\ ~ret.panic

----------------------------------------------------------------------------
(* Properties of convertBinDataToNfcPages, extractUid, calculatePassword *)

\* the argument with every byte from offset 540 on changed
TailChanged(s) ==
    [arr |-> [k \in 1..cap(s) |-> IF k > 540 THEN (s.arr[k] + 1) % 256 ELSE s.arr[k]],
     len |-> s.len]

\* the argument cut to its first 540 bytes, as s[:540]
TailCut(s) == [arr |-> s.arr, len |-> IF s.len > 540 THEN 540 ELSE s.len]

\* C1: for every input byte sequence, of any length, convertBinDataToNfcPages
\* renders exactly 135 page lines labelled 0..134 in ascending order, and the
\* input bytes at offset 540 and beyond have no influence on the output.
C1_Renders135PagesForEveryInput ==
    called = "convertBinDataToNfcPages" =>
        /\ ~ret.panic
        /\ IsPageListing(ret.val)
        /\ ret = convertBinDataToNfcPages(TailChanged(arg))
        /\ ret = convertBinDataToNfcPages(TailCut(arg))

\* C2: in the output of convertBinDataToNfcPages, page 133 holds the password
\* of the dump's UID and page 134 holds 80 80 00 00, whatever the dump holds at
\* offsets 532..539 and whether it is shorter than 532 bytes or longer than 540.
C2_TrailerPagesOverwritten ==
    Returned("convertBinDataToNfcPages") =>
        LET lines == SplitLines(ret.val)
        IN  /\ Len(lines) >= 135
            /\ IsPageLine(lines[134], 133)
            /\ IsPasswordOf(PageBytes(lines[134]), UidOfDump(Bytes(arg)))
            /\ IsPageLine(lines[135], 134)
            /\ PageBytes(lines[135]) = <<128, 128, 0, 0>>

\* C2's case: a dump that reaches page 134 with bytes at offsets 532..539
\* that are neither the password nor 80 80 00 00 was converted
C2_Witness ==
    /\ Returned("convertBinDataToNfcPages")
    /\ arg.len >= 540
    /\ ~IsPasswordOf(SubSeq(arg.arr, 533, 536), UidOfDump(Bytes(arg)))
    /\ SubSeq(arg.arr, 537, 540) /= <<128, 128, 0, 0>>

\* C3: for every 7-byte UID calculatePassword returns exactly 4 bytes,
\* pwd[0] = uid[1] XOR uid[3] XOR 0xAA, pwd[1] = uid[2] XOR uid[4] XOR 0x55,
\* pwd[2] = uid[3] XOR uid[5] XOR 0xAA, pwd[3] = uid[4] XOR uid[6] XOR 0x55
\* (0-based), and uid[0] has no effect on the result.
C3_PasswordFormula ==
    called = "calculatePassword" =>
        /\ ~ret.panic
        /\ IsHexBytes(ToUpper(ret.val), 4)
        /\ IsPasswordOf(HexBytes(ToUpper(ret.val), 4), arg)
        /\ \A b \in {0, 1, 85, 128, 170, 255} : calculatePassword([arg EXCEPT ![1] = b]) = ret

\* C3's case: the password of a UID whose bytes are not all equal was computed
C3_Witness ==
    /\ called = "calculatePassword"
    /\ ~ret.panic
    /\ arg[2] /= arg[4]
    /\ arg[5] /= arg[7]
    /\ arg[1] /= 0

\* C4: for every input of at least 8 bytes A0 A1 A2 A3 A4 A5 A6 A7 ...,
\* extractUid yields exactly the 7 bytes A0 A1 A2 A4 A5 A6 A7 in that order.
C4_UidDropsByte3 ==
    (called = "extractUid" /\ arg.len >= 8) =>
        /\ ~ret.panic
        /\ IsHexBytes(ret.val, 7)
        /\ HexBytes(ret.val, 7) =
              << arg.arr[1], arg.arr[2], arg.arr[3], arg.arr[5],
                 arg.arr[6], arg.arr[7], arg.arr[8] >>

\* C4's case: the UID of a dump of more than 8 bytes, whose byte 3 differs
\* from its neighbours, was extracted
C4_Witness ==
    /\ called = "extractUid"
    /\ ~ret.panic
    /\ arg.len > 8
    /\ arg.arr[4] /= arg.arr[3]
    /\ arg.arr[4] /= arg.arr[5]
    /\ arg.arr[9] /= arg.arr[8]

\* C6: for every input shorter than 540 bytes the rendered pages 0..132 are
\* the input followed by zero bytes: a page wholly beyond the input's end is
\* 00 00 00 00, a page partly covered is the input's bytes followed by 00.
C6_ShortInputZeroPadded ==
    (Returned("convertBinDataToNfcPages") /\ arg.len < 540) =>
        /\ IsPageListing(ret.val)
        /\ LET rendered == ListingBytes(ret.val)
           IN  \A k \in 0..531 : rendered[k + 1] = ZeroExtended(Bytes(arg), k)

\* C6's case: a dump that ends inside a page, with a non-zero last byte, was
\* converted
C6_Witness ==
    /\ Returned("convertBinDataToNfcPages")
    /\ arg.len \in 1..531
    /\ arg.len % 4 /= 0
    /\ arg.arr[arg.len] /= 0

\* C9: for an input of exactly 540 bytes every page p in 0..132 is rendered as
\* the input's bytes 4p..4p+3 in order, two uppercase hex digits each, and
\* converting the rendered 540 bytes again yields the same pages.
C9_Normalized540Unchanged ==
    (called = "convertBinDataToNfcPages" /\ arg.len = 540) =>
        /\ ~ret.panic
        /\ IsPageListing(ret.val)
        /\ LET rendered == ListingBytes(ret.val)
           IN  /\ \A k \in 0..531 : rendered[k + 1] = arg.arr[k + 1]
               /\ convertBinDataToNfcPages(FreshSlice(rendered)) = ret

\* C9's case: a 540-byte dump with non-zero bytes was converted
C9_Witness ==
    /\ Returned("convertBinDataToNfcPages")
    /\ arg.len = 540
    /\ arg.arr[1] /= 0
    /\ arg.arr[532] /= 0

----------------------------------------------------------------------------
(* Properties of main *)

\* C5: processing a 0-byte input file does not crash: the pipeline completes
\* and produces a document with UID 00 00 00 00 00 00 00, pages 0..132 all
\* 00 00 00 00, page 133 = AA 55 AA 55 and page 134 = 80 80 00 00.
C5_EmptyFileTranscodes ==
    \A k \in 1..Len(files) :
        files[k].len = 0 =>
            /\ status[k] /= "crashed"
            /\ (pc = "save" /\ idx = k) =>
                  LET lines == SplitLines(nfcContent)
                      bytes == DocumentBytes(lines)
                  IN  /\ IsDocument(lines)
                      /\ DocumentUid(lines) = <<0, 0, 0, 0, 0, 0, 0>>
                      /\ \A j \in 1..532 : bytes[j] = 0
                      /\ SubSeq(bytes, 533, 536) = <<170, 85, 170, 85>>
                      /\ SubSeq(bytes, 537, 540) = <<128, 128, 0, 0>>

\* C5's case: a 0-byte file was loaded and transcoded, and awaits its save
C5_Witness ==
    /\ pc = "save"
    /\ files[idx].len = 0
    /\ fileContent.len = 0
    /\ status[idx] = "transcoded"

\* C7: an I/O failure (read or write) on one file never aborts the run: the
\* loop attempts every discovered file, so a run that has ended has left no
\* file untouched.
C7_EveryFileAttempted ==
    pc \in {"done", "panicked"} => \A k \in 1..Len(files) : status[k] /= "pending"

\* C8: a failure to read an input file ends the whole run at that file (no
\* later file is read or written, nothing is written for the failing file),
\* whereas a failure to write an output file is only logged and the loop
\* proceeds to the next file.
C8_ReadFatalWriteLogged ==
    /\ pc = "panicked" =>
          /\ status[idx] = "readFailed"
          /\ \A k \in (idx + 1)..Len(files) : status[k] = "pending"
    /\ \A k \in 1..Len(files) :
          /\ status[k] = "readFailed" => (pc = "panicked" /\ idx = k)
          /\ status[k] = "writeFailed" =>
                /\ idx = k + 1 \/ status[k + 1] /= "pending"
                /\ (idx = k + 1 /\ k < Len(files)) => pc \in {"load", "transcode", "save", "panicked"}
                /\ (idx = k + 1 /\ pc = "panicked") => status[idx] = "readFailed"
    /\ logged = Cardinality({k \in 1..Len(files) : status[k] = "writeFailed"})

\* C8's case: the write of one file failed, the loop went on, and the read of
\* a later file failed with a file still behind it
C8_Witness ==
    /\ pc = "panicked"
    /\ idx > 1
    /\ idx < Len(files)
    /\ status[idx - 1] = "writeFailed"
    /\ status[idx] = "readFailed"

\* C10: for every file main transcodes, the UID on the header's UID line is
\* the UID used inside convertBinDataToNfcPages: page 133 is the password of
\* the header UID, and the header UID is bytes 0..2 of rendered page 0
\* followed by the 4 bytes of rendered page 1.
C10_HeaderUidMatchesPages ==
    pc = "save" =>
        LET lines == SplitLines(nfcContent)
            uid == DocumentUid(lines)
            bytes == DocumentBytes(lines)
        IN  /\ IsDocument(lines)
            /\ uid = SubSeq(bytes, 1, 3) \o SubSeq(bytes, 5, 8)
            /\ IsPasswordOf(SubSeq(bytes, 533, 536), uid)

\* C10's case: a file shorter than 8 bytes and not page aligned, with
\* non-zero bytes, was transcoded
C10_Witness ==
    /\ pc = "save"
    /\ fileContent.len \in 1..7
    /\ fileContent.len % 4 /= 0
    /\ fileContent.arr[fileContent.len] /= 0

====
